---- MODULE Spec2Model ----
(***************************************************************************)
(* Model of hw_final.py: the validated fields Name, Phone and Birthday,    *)
(* the contact Record, the AddressBook and the command handlers wrapped by *)
(* the input_error decorator.                                              *)
(*                                                                         *)
(* A Python str is a sequence of one-character strings, so that isalpha,   *)
(* isdigit, len and strptime are computed character by character.  The     *)
(* token "sup2" stands for the single character U+00B2 (superscript two),  *)
(* for which str.isdigit() is True although it is no decimal digit.        *)
(* An attribute that is None or an object (Record.birthday, the result of  *)
(* find) is a sequence of length 0 or 1.                                   *)
(***************************************************************************)
EXTENDS Integers, Sequences, FiniteSets, TLC

VARIABLES
    book,   \* AddressBook.data: insertion-ordered sequence of [key, record]
    rec,    \* a stand-alone Record driven through its own methods
    last    \* the most recent call: operation, arguments, outcome

vars == <<book, rec, last>>

-----------------------------------------------------------------------------
(* Bounds *)

\* longest argument list passed to a handler
MaxArgs == 3
\* number of consecutive calendar days datetime.now().date() ranges over
NumTodays == 9
\* longest phone list built on the stand-alone record
MaxPhones == 3

-----------------------------------------------------------------------------
(* Characters and the str predicates the validators use *)

DigitSeq == <<"0", "1", "2", "3", "4", "5", "6", "7", "8", "9">>

DecimalDigits == {DigitSeq[i] : i \in 1..Len(DigitSeq)}

\* characters for which str.isdigit() holds
DigitChars == DecimalDigits \cup {"sup2"}

\* characters for which str.isalpha() holds
AlphaChars == {"A", "B", "a", "b", "c", "d", "e", "l", "o"}

\* str.isalpha(): non-empty and every character alphabetic
isalpha(s) == Len(s) > 0 /\ \A i \in 1..Len(s) : s[i] \in AlphaChars

\* str.isdigit(): non-empty and every character a digit
isdigit(s) == Len(s) > 0 /\ \A i \in 1..Len(s) : s[i] \in DigitChars

\* s[from..to] as a sequence, empty when from > to
Slice(s, from, to) == [i \in 1..(to - from + 1) |-> s[from + i - 1]]

DigitVal(c) == (CHOOSE i \in 1..Len(DigitSeq) : DigitSeq[i] = c) - 1

\* int(s) of a string of decimal digits with optional leading blanks
RECURSIVE int(_)
int(s) ==
    IF Len(s) = 0 THEN 0
    ELSE IF s[Len(s)] = " " THEN 0
    ELSE 10 * int(Slice(s, 1, Len(s) - 1)) + DigitVal(s[Len(s)])

-----------------------------------------------------------------------------
(* datetime: strptime(value, '%d.%m.%Y').date(), date arithmetic, %A *)

NonZeroDigits == DecimalDigits \ {"0"}

\* the directive %d: 3[0-1]|[1-2]\d|0[1-9]|[1-9]| [1-9]
MatchD(t) ==
    \/ Len(t) = 2 /\ t[1] = "3" /\ t[2] \in {"0", "1"}
    \/ Len(t) = 2 /\ t[1] \in {"1", "2"} /\ t[2] \in DecimalDigits
    \/ Len(t) = 2 /\ t[1] = "0" /\ t[2] \in NonZeroDigits
    \/ Len(t) = 1 /\ t[1] \in NonZeroDigits
    \/ Len(t) = 2 /\ t[1] = " " /\ t[2] \in NonZeroDigits

\* the directive %m: 1[0-2]|0[1-9]|[1-9]
MatchM(t) ==
    \/ Len(t) = 2 /\ t[1] = "1" /\ t[2] \in {"0", "1", "2"}
    \/ Len(t) = 2 /\ t[1] = "0" /\ t[2] \in NonZeroDigits
    \/ Len(t) = 1 /\ t[1] \in NonZeroDigits

\* the directive %Y: \d\d\d\d
MatchY(t) == Len(t) = 4 /\ \A i \in 1..4 : t[i] \in DecimalDigits

IsLeap(y) == y % 4 = 0 /\ (y % 100 # 0 \/ y % 400 = 0)

DaysInMonth(y, m) ==
    IF m = 2 THEN (IF IsLeap(y) THEN 29 ELSE 28)
    ELSE IF m \in {4, 6, 9, 11} THEN 30
    ELSE 31

RECURSIVE DaysBeforeMonth(_, _)
DaysBeforeMonth(y, m) ==
    IF m = 1 THEN 0 ELSE DaysBeforeMonth(y, m - 1) + DaysInMonth(y, m - 1)

DaysBeforeYear(y) ==
    (y - 1) * 365 + ((y - 1) \div 4) - ((y - 1) \div 100) + ((y - 1) \div 400)

\* date(y, m, d).toordinal(): day 1 is 0001-01-01
ymd2ord(y, m, d) == DaysBeforeYear(y) + DaysBeforeMonth(y, m) + d

Dots(s) == {i \in 1..Len(s) : s[i] = "."}

Min(S) == CHOOSE x \in S : \A y \in S : x <= y

\* datetime.strptime(value, '%d.%m.%Y').date():
\* [ok |-> FALSE] stands for ValueError, otherwise the date's ordinal.
strptime(value) ==
    IF Cardinality(Dots(value)) < 2 THEN [ok |-> FALSE, ord |-> 0]
    ELSE
        LET p1 == Min(Dots(value))
            p2 == Min(Dots(value) \ {p1})
            dd == Slice(value, 1, p1 - 1)
            mm == Slice(value, p1 + 1, p2 - 1)
            yy == Slice(value, p2 + 1, Len(value))
        IN  IF ~(MatchD(dd) /\ MatchM(mm) /\ MatchY(yy))
              THEN [ok |-> FALSE, ord |-> 0]
            ELSE IF int(yy) < 1 \/ int(dd) > DaysInMonth(int(yy), int(mm))
              THEN [ok |-> FALSE, ord |-> 0]
            ELSE [ok |-> TRUE, ord |-> ymd2ord(int(yy), int(mm), int(dd))]

\* 2026-11-02 is a Monday, 2026-11-07 a Saturday and 2026-11-08 a Sunday;
\* "8.11.2026" has a one-digit day; 02.11.2025 lies a year before them
DateMon == <<"0", "2", ".", "1", "1", ".", "2", "0", "2", "6">>
DateSat == <<"0", "7", ".", "1", "1", ".", "2", "0", "2", "6">>
DateSunShort == <<"8", ".", "1", "1", ".", "2", "0", "2", "6">>
DatePastYear == <<"0", "2", ".", "1", "1", ".", "2", "0", "2", "5">>
DateNoSuchDay == <<"2", "9", ".", "0", "2", ".", "2", "0", "2", "6">>
DateIso == <<"2", "0", "2", "6", "-", "1", "1", "-", "0", "2">>

DateArgs == {DateMon, DateSat, DateSunShort, DatePastYear, DateNoSuchDay, DateIso}

\* strptime evaluated once for each string it is ever given
Parsed == [value \in DateArgs |-> strptime(value)]

DayNames ==
    <<"Monday", "Tuesday", "Wednesday", "Thursday", "Friday", "Saturday", "Sunday">>

\* date.fromordinal(ord).strftime("%A")
strftimeA(ord) == DayNames[((ord + 6) % 7) + 1]

-----------------------------------------------------------------------------
(* Field constructors: TRUE when the constructor raises ValueError *)

NameRaises(value) == ~isalpha(value) \/ Len(value) < 2

PhoneRaises(value) == ~isdigit(value) \/ Len(value) # 10

BirthdayRaises(value) == ~Parsed[value].ok

-----------------------------------------------------------------------------
(* Outcomes of a call: the returned value or the exception raised *)

Msg(m) == [kind |-> "msg", msg |-> m, val |-> <<>>]
StrVal(s) == [kind |-> "str", msg |-> "", val |-> s]
ListVal(l) == [kind |-> "list", msg |-> "", val |-> l]
NoneVal == [kind |-> "none", msg |-> "", val |-> <<>>]

Return(b, r) == [state |-> b, exc |-> "none", ret |-> r]
Raise(b, e) == [state |-> b, exc |-> e, ret |-> NoneVal]

-----------------------------------------------------------------------------
(* Record *)

\* Record.__init__ after Name(name) succeeded
Record(name) == [name |-> name, phones |-> <<>>, birthday |-> <<>>]

add_phone(r, phone) ==
    IF PhoneRaises(phone) THEN Raise(r, "ValueError")
    ELSE Return([r EXCEPT !.phones = Append(@, phone)], NoneVal)

RemoveAt(s, i) == [j \in 1..(Len(s) - 1) |-> IF j < i THEN s[j] ELSE s[j + 1]]

\* the for loop of remove_phone: the list iterator keeps an index into the
\* list that the body shrinks; list.remove(p) drops the object p itself
RECURSIVE RemoveLoop(_, _, _)
RemoveLoop(phones, i, phone) ==
    IF i > Len(phones) THEN phones
    ELSE IF phones[i] = phone THEN RemoveLoop(RemoveAt(phones, i), i + 1, phone)
    ELSE RemoveLoop(phones, i + 1, phone)

remove_phone(r, phone) ==
    Return([r EXCEPT !.phones = RemoveLoop(@, 1, phone)], NoneVal)

\* the for loop of edit_phone: no validation of new_phone, no break
RECURSIVE EditLoop(_, _, _, _)
EditLoop(phones, i, old_phone, new_phone) ==
    IF i > Len(phones) THEN phones
    ELSE IF phones[i] = old_phone
      THEN EditLoop([phones EXCEPT ![i] = new_phone], i + 1, old_phone, new_phone)
    ELSE EditLoop(phones, i + 1, old_phone, new_phone)

edit_phone(r, old_phone, new_phone) ==
    Return([r EXCEPT !.phones = EditLoop(@, 1, old_phone, new_phone)], NoneVal)

add_birthday(r, birthday) ==
    IF BirthdayRaises(birthday) THEN Raise(r, "ValueError")
    ELSE Return([r EXCEPT !.birthday = <<birthday>>], NoneVal)

find_phone(r, phone) ==
    IF \E i \in 1..Len(r.phones) : r.phones[i] = phone
      THEN Return(r, StrVal(phone))
    ELSE Return(r, NoneVal)

RECURSIVE join(_, _)
join(sep, items) ==
    IF Len(items) = 0 THEN <<>>
    ELSE IF Len(items) = 1 THEN items[1]
    ELSE items[1] \o sep \o join(sep, Tail(items))

NotSpecified == <<"N", "o", "t", " ", "s", "p", "e", "c", "i", "f", "i", "e", "d">>

\* Record.__str__: the slots of the f-string
RecordStr(r) ==
    [text |-> "Contact name: {name}, phones: {phones}, birthday: {birthday}",
     name |-> r.name,
     phones |-> join(<<";", " ">>, r.phones),
     birthday |-> IF Len(r.birthday) > 0 THEN r.birthday[1] ELSE NotSpecified]

-----------------------------------------------------------------------------
(* AddressBook *)

Keys(b) == {b[i].key : i \in 1..Len(b)}

IndexOf(b, name) == CHOOSE i \in 1..Len(b) : b[i].key = name

\* faulty variant of add_record: appends even when the key is present
add_record_Append(b, record) ==
    Append(b, [key |-> record.name, record |-> record])

add_record(b, record) ==
    IF record.name \in Keys(b)
      THEN [b EXCEPT ![IndexOf(b, record.name)].record = record]
    ELSE Append(b, [key |-> record.name, record |-> record])

\* self.data.get(name): <<>> is None
find(b, name) ==
    IF name \in Keys(b) THEN <<b[IndexOf(b, name)].record>> ELSE <<>>

BucketOrder ==
    <<"Monday", "Tuesday", "Wednesday", "Thursday", "Friday", "Next Monday">>

Buckets == {BucketOrder[i] : i \in 1..Len(BucketOrder)}

\* faulty variant of BucketStep: the window is 0 <= delta_days <= 7
BucketStep_Inclusive(acc, record, today) ==
    IF Len(record.birthday) = 0 THEN acc
    ELSE
        LET birthday_date == Parsed[record.birthday[1]].ord
            delta_days == birthday_date - today
            day_of_week == strftimeA(today + delta_days)
        IN  IF 0 <= delta_days /\ delta_days <= 7
              THEN IF day_of_week \in {"Saturday", "Sunday"}
                     THEN [acc EXCEPT !["Next Monday"] = Append(@, record.name)]
                   ELSE [acc EXCEPT ![day_of_week] = Append(@, record.name)]
            ELSE acc

\* one iteration of the loop of get_birthdays_per_week
BucketStep(acc, record, today) ==
    IF Len(record.birthday) = 0 THEN acc
    ELSE
        LET birthday_date == Parsed[record.birthday[1]].ord
            delta_days == birthday_date - today
            day_of_week == strftimeA(today + delta_days)
        IN  IF 0 <= delta_days /\ delta_days < 7
              THEN IF day_of_week \in {"Saturday", "Sunday"}
                     THEN [acc EXCEPT !["Next Monday"] = Append(@, record.name)]
                   ELSE [acc EXCEPT ![day_of_week] = Append(@, record.name)]
            ELSE acc

RECURSIVE BucketLoop(_, _, _, _)
BucketLoop(acc, b, i, today) ==
    IF i > Len(b) THEN acc
    ELSE BucketLoop(BucketStep(acc, b[i].record, today), b, i + 1, today)

get_birthdays_per_week(b, today) ==
    BucketLoop([d \in Buckets |-> <<>>], b, 1, today)

-----------------------------------------------------------------------------
(* input_error and the command handlers *)

\* the decorator: the handler's value, or the message of the exception caught
input_error(out) ==
    IF out.exc = "ValueError" THEN Msg("Give me name and phone please.")
    ELSE IF out.exc = "KeyError" THEN Msg("Contact not found.")
    ELSE IF out.exc = "IndexError"
      THEN Msg("Invalid input. Please provide the required information.")
    ELSE out.ret

\* the record object stored under name, mutated in place
SetRecord(b, name, r) == [b EXCEPT ![IndexOf(b, name)].record = r]

handle_add(args, b) ==
    IF Len(args) = 2 THEN
        LET name == args[1]
            phone == args[2]
        IN  IF NameRaises(name) THEN Raise(b, "ValueError")
            ELSE
                LET added == add_phone(Record(name), phone)
                IN  IF added.exc # "none" THEN Raise(b, added.exc)
                    ELSE Return(add_record(b, added.state), Msg("Contact added."))
    ELSE Return(b, Msg("Invalid input. Please provide a name and a phone number."))

\* faulty variant of handle_change: adds new_phone instead of editing the first
handle_change_Appends(args, b) ==
    IF Len(args) = 2 THEN
        LET name == args[1]
            new_phone == args[2]
            record == find(b, name)
        IN  IF Len(record) > 0 THEN
                LET added == add_phone(record[1], new_phone)
                IN  IF added.exc # "none" THEN Raise(b, added.exc)
                    ELSE Return(SetRecord(b, name, added.state),
                                Msg("Contact updated."))
            ELSE Return(b, Msg("Contact not found."))
    ELSE Return(b, Msg("Invalid input. Please provide a name and a new phone number."))

handle_change(args, b) ==
    IF Len(args) = 2 THEN
        LET name == args[1]
            new_phone == args[2]
            record == find(b, name)
        IN  IF Len(record) > 0 THEN
                IF Len(record[1].phones) = 0 THEN Raise(b, "IndexError")
                ELSE
                    LET edited == edit_phone(record[1], record[1].phones[1], new_phone)
                    IN  IF edited.exc # "none" THEN Raise(b, edited.exc)
                        ELSE Return(SetRecord(b, name, edited.state),
                                    Msg("Contact updated."))
            ELSE Return(b, Msg("Contact not found."))
    ELSE Return(b, Msg("Invalid input. Please provide a name and a new phone number."))

\* faulty variant of handle_phone: accepts any argument list with a first element
handle_phone_AtLeastOne(args, b) ==
    IF Len(args) >= 1 THEN
        LET name == args[1]
            record == find(b, name)
        IN  IF Len(record) > 0 THEN
                IF Len(record[1].phones) = 0 THEN Raise(b, "IndexError")
                ELSE Return(b, StrVal(record[1].phones[1]))
            ELSE Return(b, Msg("Contact not found."))
    ELSE Return(b, Msg("Invalid input. Please provide a name."))

handle_phone(args, b) ==
    IF Len(args) = 1 THEN
        LET name == args[1]
            record == find(b, name)
        IN  IF Len(record) > 0 THEN
                IF Len(record[1].phones) = 0 THEN Raise(b, "IndexError")
                ELSE Return(b, StrVal(record[1].phones[1]))
            ELSE Return(b, Msg("Contact not found."))
    ELSE Return(b, Msg("Invalid input. Please provide a name."))

handle_all(b) ==
    Return(b, ListVal([i \in 1..Len(b) |-> RecordStr(b[i].record)]))

\* faulty variant of handle_add_birthday: creates the record when it is missing
handle_add_birthday_Upsert(args, b) ==
    IF Len(args) = 2 THEN
        LET name == args[1]
            birthday == args[2]
            record == find(b, name)
            target == IF Len(record) > 0 THEN record[1] ELSE Record(name)
            set == add_birthday(target, birthday)
        IN  IF set.exc # "none" THEN Raise(b, set.exc)
            ELSE Return(add_record(b, set.state), Msg("Birthday added."))
    ELSE Return(b,
            Msg("Invalid input. Please provide a name and a birthday (DD.MM.YYYY)."))

handle_add_birthday(args, b) ==
    IF Len(args) = 2 THEN
        LET name == args[1]
            birthday == args[2]
            record == find(b, name)
        IN  IF Len(record) > 0 THEN
                LET set == add_birthday(record[1], birthday)
                IN  IF set.exc # "none" THEN Raise(b, set.exc)
                    ELSE Return(SetRecord(b, name, set.state), Msg("Birthday added."))
            ELSE Return(b, Msg("Contact not found."))
    ELSE Return(b,
            Msg("Invalid input. Please provide a name and a birthday (DD.MM.YYYY)."))

handle_show_birthday(args, b) ==
    IF Len(args) = 1 THEN
        LET name == args[1]
            record == find(b, name)
        IN  IF Len(record) > 0 /\ Len(record[1].birthday) > 0
              THEN Return(b, StrVal(record[1].birthday[1]))
            ELSE Return(b, Msg("Contact not found or birthday not specified."))
    ELSE Return(b, Msg("Invalid input. Please provide a name."))

\* the messages of the non-empty buckets, in the order of the dict
RECURSIVE BirthdayMessages(_, _)
BirthdayMessages(birthdays, i) ==
    IF i > Len(BucketOrder) THEN <<>>
    ELSE
        LET day == BucketOrder[i]
            names == birthdays[day]
            rest == BirthdayMessages(birthdays, i + 1)
        IN  IF Len(names) > 0
              THEN <<[text |-> "Next {day}: {names}", day |-> day,
                      names |-> join(<<",", " ">>, names)]>> \o rest
            ELSE rest

handle_birthdays(b, today) ==
    Return(b, ListVal(BirthdayMessages(get_birthdays_per_week(b, today), 1)))

-----------------------------------------------------------------------------
(* Inputs *)

Al == <<"A", "l">>
Bob == <<"B", "o", "b">>
OneLetter == <<"B">>
NotAlpha == <<"B", "1">>

Phone1 == <<"1", "2", "3", "4", "5", "6", "7", "8", "9", "0">>
Phone2 == <<"0", "9", "8", "7", "6", "5", "4", "3", "2", "1">>
ShortPhone == <<"1", "2", "3">>
LetterPhone == <<"1", "2", "3", "4", "5", "a", "b", "c", "d", "e">>
SupPhone == [i \in 1..10 |-> "sup2"]

\* names given to handle_add, and names the other handlers look up
NameArgs == {Al, Bob, OneLetter, NotAlpha}
KeyArgs == {Al, Bob}
\* phones given to handle_add, to handle_change and to the Record methods
PhoneArgs == {Phone1, Phone2, ShortPhone, LetterPhone}
NewPhoneArgs == {Phone1, Phone2, ShortPhone}
MethodPhoneArgs == {Phone1, Phone2, ShortPhone, SupPhone}

\* the values datetime.now().date() takes, as ordinals, from 2026-10-31 on
TodayFirst == ymd2ord(2026, 10, 31)
Todays == TodayFirst..(TodayFirst + NumTodays - 1)

\* argument lists of every length up to MaxArgs but n
WrongCount(n) == {[i \in 1..k |-> Bob] : k \in (0..MaxArgs) \ {n}}

PairArgs(A, B) == {<<a, b>> : a \in A, b \in B} \cup WrongCount(2)
SingleArgs(A) == {<<a>> : a \in A} \cup WrongCount(1)

-----------------------------------------------------------------------------
(* Actions *)

NoBirthdays == [d \in {} |-> <<>>]

NoCall ==
    [op |-> "none", args |-> <<>>, today |-> 0, exc |-> "none", result |-> NoneVal,
     birthdays |-> NoBirthdays]

Init ==
    /\ book = <<>>
    /\ rec = Record(Bob)
    /\ last = NoCall

\* a handler call: the decorator turns the outcome into the printed result
\* (birthdays is the dict handle_birthdays got from get_birthdays_per_week)
Call(op, args, today, out, birthdays) ==
    /\ book' = out.state
    /\ last' = [op |-> op, args |-> args, today |-> today, exc |-> out.exc,
                result |-> input_error(out), birthdays |-> birthdays]
    /\ UNCHANGED rec

HandleAdd ==
    \E args \in PairArgs(NameArgs, PhoneArgs) :
        Call("handle_add", args, 0, handle_add(args, book), NoBirthdays)

HandleChange ==
    \E args \in PairArgs(KeyArgs, NewPhoneArgs) :
        Call("handle_change", args, 0, handle_change(args, book), NoBirthdays)

HandlePhone ==
    \E args \in SingleArgs(KeyArgs) :
        Call("handle_phone", args, 0, handle_phone(args, book), NoBirthdays)

HandleAll == Call("handle_all", <<>>, 0, handle_all(book), NoBirthdays)

HandleAddBirthday ==
    \E args \in PairArgs(KeyArgs, DateArgs) :
        Call("handle_add_birthday", args, 0, handle_add_birthday(args, book), NoBirthdays)

HandleShowBirthday ==
    \E args \in SingleArgs(KeyArgs) :
        Call("handle_show_birthday", args, 0, handle_show_birthday(args, book), NoBirthdays)

HandleBirthdays ==
    \E today \in Todays :
        Call("handle_birthdays", <<>>, today, handle_birthdays(book, today),
             get_birthdays_per_week(book, today))

Next ==
    \/ HandleAdd
    \/ HandleChange
    \/ HandlePhone
    \/ HandleAll
    \/ HandleAddBirthday
    \/ HandleShowBirthday
    \/ HandleBirthdays

Spec == Init /\ [][Next]_vars

\* a Record method called directly on rec: an exception propagates
Method(op, args, out) ==
    /\ rec' = out.state
    /\ last' = [op |-> op, args |-> args, today |-> 0, exc |-> out.exc,
                result |-> out.ret, birthdays |-> NoBirthdays]
    /\ UNCHANGED book

AddPhone ==
    \E phone \in MethodPhoneArgs :
        /\ Len(rec.phones) < MaxPhones
        /\ Method("add_phone", <<phone>>, add_phone(rec, phone))

RemovePhone ==
    \E phone \in MethodPhoneArgs :
        Method("remove_phone", <<phone>>, remove_phone(rec, phone))

EditPhone ==
    \E old_phone \in MethodPhoneArgs, new_phone \in MethodPhoneArgs :
        Method("edit_phone", <<old_phone, new_phone>>,
               edit_phone(rec, old_phone, new_phone))

FindPhone ==
    \E phone \in MethodPhoneArgs :
        Method("find_phone", <<phone>>, find_phone(rec, phone))

NextRecord ==
    \/ AddPhone
    \/ RemovePhone
    \/ EditPhone
    \/ FindPhone

SpecRecord == Init /\ [][NextRecord]_vars

-----------------------------------------------------------------------------
(* Vocabulary of the properties *)

\* exactly 10 decimal digits
TenDecimalDigits(s) == Len(s) = 10 /\ \A i \in 1..10 : s[i] \in DecimalDigits

\* alphabetic and at least 2 characters long
AlphabeticName(s) == Len(s) >= 2 /\ \A i \in 1..Len(s) : s[i] \in AlphaChars

\* a calendar-valid date written DD.MM.YYYY
CalendarDDMMYYYY(s) ==
    /\ Len(s) = 10
    /\ s[3] = "." /\ s[6] = "."
    /\ \A i \in {1, 2, 4, 5, 7, 8, 9, 10} : s[i] \in DecimalDigits
    /\ LET d == 10 * DigitVal(s[1]) + DigitVal(s[2])
           m == 10 * DigitVal(s[4]) + DigitVal(s[5])
           y == 1000 * DigitVal(s[7]) + 100 * DigitVal(s[8])
                  + 10 * DigitVal(s[9]) + DigitVal(s[10])
       IN  y >= 1 /\ m \in 1..12 /\ d >= 1 /\ d <= DaysInMonth(y, m)

\* the records stored under key k
RecordsUnder(b, k) == {b[i].record : i \in {j \in 1..Len(b) : b[j].key = k}}

Arity(op) ==
    IF op \in {"handle_add", "handle_change", "handle_add_birthday"} THEN 2 ELSE 1

\* the call recorded in l is a handler call with a wrong number of arguments
WrongCountCall(l) ==
    /\ l.op \in {"handle_add", "handle_change", "handle_add_birthday",
                 "handle_phone", "handle_show_birthday"}
    /\ Len(l.args) # Arity(l.op)

\* the call recorded in l looks up a name that is no key of b
NotFoundCall(l, b) ==
    /\ l.op \in {"handle_change", "handle_add_birthday", "handle_phone",
                 "handle_show_birthday"}
    /\ Len(l.args) = Arity(l.op)
    /\ l.args[1] \notin Keys(b)

UsageMessage(op) ==
    CASE op = "handle_add" ->
           "Invalid input. Please provide a name and a phone number."
      [] op = "handle_change" ->
           "Invalid input. Please provide a name and a new phone number."
      [] op = "handle_add_birthday" ->
           "Invalid input. Please provide a name and a birthday (DD.MM.YYYY)."
      [] OTHER -> "Invalid input. Please provide a name."

\* the calendar date each accepted birthday string denotes
StoredDate(value) ==
    CASE value = DateMon -> ymd2ord(2026, 11, 2)
      [] value = DateSat -> ymd2ord(2026, 11, 7)
      [] value = DateSunShort -> ymd2ord(2026, 11, 8)
      [] value = DatePastYear -> ymd2ord(2025, 11, 2)

\* 0 for a Monday ... 6 for a Sunday; 2026-11-02 is a Monday
WeekdayIndex(d) == (d - ymd2ord(2026, 11, 2)) % 7

ExpectedBucket(d) ==
    IF WeekdayIndex(d) >= 5 THEN "Next Monday" ELSE BucketOrder[WeekdayIndex(d) + 1]

\* how often name is listed in the mapping m
Occurrences(m, name) ==
    Cardinality({p \in UNION {{<<d, j>> : j \in 1..Len(m[d])} : d \in DOMAIN m} :
                    m[p[1]][p[2]] = name})

FirstIndex(s, v) == Min({i \in 1..Len(s) : s[i] = v})

\* s without its first entry equal to v
WithoutFirst(s, v) ==
    IF \E i \in 1..Len(s) : s[i] = v
      THEN [j \in 1..(Len(s) - 1) |-> IF j < FirstIndex(s, v) THEN s[j] ELSE s[j + 1]]
    ELSE s

\* s with its first entry equal to v replaced by w
FirstReplaced(s, v, w) ==
    IF \E i \in 1..Len(s) : s[i] = v THEN [s EXCEPT ![FirstIndex(s, v)] = w] ELSE s

-----------------------------------------------------------------------------
(* Properties *)

\* C1: in every state reached through the handlers, every phone stored in
\* every record of the book is a string of exactly 10 decimal digits.
C1_StoredPhonesTenDigits ==
    \A i \in 1..Len(book) :
        \A j \in 1..Len(book[i].record.phones) :
            TenDecimalDigits(book[i].record.phones[j])

\* C2: handle_change([name, new_phone]) for a name in the book and a new_phone
\* that is not exactly 10 decimal digits returns "Give me name and phone
\* please." and leaves the book unchanged.
C2_ChangeRejectsInvalidPhone ==
    [][(/\ last'.op = "handle_change"
        /\ Len(last'.args) = 2
        /\ last'.args[1] \in Keys(book)
        /\ ~TenDecimalDigits(last'.args[2]))
       => (/\ last'.result = Msg("Give me name and phone please.")
           /\ book' = book)]_vars

\* C3: handle_add with an invalid name or an invalid phone, and
\* handle_add_birthday for an existing name with a date that is no
\* calendar-valid DD.MM.YYYY string, return "Give me name and phone please.",
\* raise nothing past the handler and leave the book unchanged.
C3_InvalidInputRejected ==
    [][(\/ /\ last'.op = "handle_add"
           /\ Len(last'.args) = 2
           /\ (~AlphabeticName(last'.args[1]) \/ ~TenDecimalDigits(last'.args[2]))
        \/ /\ last'.op = "handle_add_birthday"
           /\ Len(last'.args) = 2
           /\ last'.args[1] \in Keys(book)
           /\ ~CalendarDDMMYYYY(last'.args[2]))
       => (/\ last'.result = Msg("Give me name and phone please.")
           /\ book' = book)]_vars

\* C4 as stated: a handler called with a wrong number of arguments returns
\* "Invalid input. Please provide the required information." and leaves the
\* book unchanged.
C4_WrongCountFixedMessage ==
    [][WrongCountCall(last')
       => (/\ last'.result =
                Msg("Invalid input. Please provide the required information.")
           /\ book' = book)]_vars

\* C4 as amended: a handler called with a wrong number of arguments returns
\* its own usage message and leaves the book unchanged.
C4_WrongCountUsageMessage ==
    [][WrongCountCall(last')
       => (/\ last'.result = Msg(UsageMessage(last'.op))
           /\ last'.exc = "none"
           /\ book' = book)]_vars

C4_Witness ==
    /\ WrongCountCall(last)
    /\ last.op = "handle_add"
    /\ Len(last.args) = 3
    /\ last.result = Msg("Invalid input. Please provide a name and a phone number.")
    /\ Len(book) = 2

\* C5 as stated: every handler that looks a contact up, called with the right
\* number of arguments and a name that is no key of the book, returns
\* "Contact not found." and leaves the book unchanged.
C5_NotFoundFixedMessage ==
    [][NotFoundCall(last', book)
       => (/\ last'.result = Msg("Contact not found.")
           /\ book' = book)]_vars

\* C5 as amended: handle_phone, handle_change and handle_add_birthday return
\* "Contact not found.", handle_show_birthday returns "Contact not found or
\* birthday not specified."; the book is unchanged.
C5_NotFoundMessage ==
    [][NotFoundCall(last', book)
       => (/\ last'.result =
                Msg(IF last'.op = "handle_show_birthday"
                      THEN "Contact not found or birthday not specified."
                    ELSE "Contact not found.")
           /\ book' = book)]_vars

C5_Witness ==
    /\ NotFoundCall(last, book)
    /\ last.op = "handle_add_birthday"
    /\ last.args[2] = DateMon
    /\ last.result = Msg("Contact not found.")
    /\ Len(book) = 1

\* C6: handle_add with a valid name and phone returns "Contact added."; the
\* book then holds under name exactly one record, with that name, that phone
\* as its only phone and no birthday; a name already present is replaced
\* without the book growing; records under other names are unchanged.  In
\* every state each key equals the name of the record stored under it.
C6_AddStoresRecord ==
    /\ [](\A i \in 1..Len(book) : book[i].key = book[i].record.name)
    /\ [][(/\ last'.op = "handle_add"
           /\ Len(last'.args) = 2
           /\ AlphabeticName(last'.args[1])
           /\ TenDecimalDigits(last'.args[2]))
          => (/\ last'.result = Msg("Contact added.")
              /\ RecordsUnder(book', last'.args[1]) =
                   {[name |-> last'.args[1], phones |-> <<last'.args[2]>>,
                     birthday |-> <<>>]}
              /\ Cardinality({i \in 1..Len(book') : book'[i].key = last'.args[1]}) = 1
              /\ Len(book') =
                   IF last'.args[1] \in Keys(book) THEN Len(book) ELSE Len(book) + 1
              /\ \A k \in Keys(book) \ {last'.args[1]} :
                   RecordsUnder(book', k) = RecordsUnder(book, k))]_vars

\* handle_add of the key inserted first, when a second key is present: the
\* record under it was replaced
C6_Witness ==
    /\ last.op = "handle_add"
    /\ last.result = Msg("Contact added.")
    /\ Len(book) = 2
    /\ last.args[1] = book[1].key
    /\ book[1].record = [name |-> Al, phones |-> <<Phone2>>, birthday |-> <<>>]
    /\ Len(book[2].record.birthday) = 1

\* C7: the weekly query returns a mapping with exactly the six keys Monday ..
\* Friday, Next Monday; a contact's name is listed iff its stored date d has
\* 0 <= d - today < 7, then exactly once, under Next Monday when d is a
\* Saturday or Sunday and under the weekday of d otherwise; the book is
\* unchanged.
C7_WeeklyBirthdays ==
    [][last'.op = "handle_birthdays"
       => LET m == last'.birthdays
              today == last'.today
          IN  /\ DOMAIN m = {"Monday", "Tuesday", "Wednesday", "Thursday", "Friday",
                             "Next Monday"}
              /\ \A d \in DOMAIN m : \A j \in 1..Len(m[d]) : m[d][j] \in Keys(book)
              /\ \A i \in 1..Len(book) :
                    LET r == book[i].record
                        due == /\ Len(r.birthday) = 1
                               /\ 0 <= StoredDate(r.birthday[1]) - today
                               /\ StoredDate(r.birthday[1]) - today < 7
                    IN  /\ Occurrences(m, r.name) = (IF due THEN 1 ELSE 0)
                        /\ due =>
                             \E j \in 1..Len(m[ExpectedBucket(StoredDate(r.birthday[1]))]) :
                                m[ExpectedBucket(StoredDate(r.birthday[1]))][j] = r.name
              /\ book' = book]_vars

\* one contact listed under Monday, another under Next Monday for a Sunday
\* whose stored string has a one-digit day
C7_Witness ==
    /\ last.op = "handle_birthdays"
    /\ last.birthdays["Monday"] = <<Bob>>
    /\ last.birthdays["Next Monday"] = <<Al>>
    /\ RecordsUnder(book, Al) # {}
    /\ \A r \in RecordsUnder(book, Al) : r.birthday = <<DateSunShort>>

\* C8: remove_phone(raw) removes only the first entry equal to raw and keeps
\* every other entry in order; with no such entry the list is unchanged; no
\* error is raised.
C8_RemoveOnlyFirst ==
    [][last'.op = "remove_phone"
       => (/\ rec'.phones = WithoutFirst(rec.phones, last'.args[1])
           /\ last'.exc = "none")]_vars

\* C9: edit_phone(old, new) with a valid new changes exactly the first entry
\* equal to old and leaves every other entry, the length and the order
\* unchanged; with no such entry the list is unchanged; no error is raised.
C9_EditOnlyFirst ==
    [][(last'.op = "edit_phone" /\ TenDecimalDigits(last'.args[2]))
       => (/\ rec'.phones = FirstReplaced(rec.phones, last'.args[1], last'.args[2])
           /\ last'.exc = "none")]_vars

\* C10: in every state reached through the handlers every record has exactly
\* one phone, no handler fails with IndexError, and handle_phone on an
\* existing name returns that record's phone.
C10_ExactlyOnePhone ==
    /\ \A i \in 1..Len(book) : Len(book[i].record.phones) = 1
    /\ last.exc # "IndexError"
    /\ (last.op = "handle_phone" /\ Len(last.args) = 1 /\ last.args[1] \in Keys(book))
         => \E i \in 1..Len(book) :
               /\ book[i].key = last.args[1]
               /\ last.result = StrVal(book[i].record.phones[1])

\* handle_phone returning a phone that only handle_change can have stored
C10_Witness ==
    /\ last.op = "handle_phone"
    /\ Len(last.args) = 1
    /\ last.args[1] \in Keys(book)
    /\ last.result = StrVal(ShortPhone)

====
